---- MODULE Spec2Model ----
(***************************************************************************)
(* Model of AdminService.verifyAndFixAdminAccess (src/unnamed/part_000)    *)
(* and of the helpers it calls.  The external authority is opaque: every   *)
(* remote call resolves to one of the outcomes the client library can      *)
(* deliver (a thrown exception, a reported error, or a payload).  The      *)
(* async function is cut at its await points.                              *)
(***************************************************************************)
EXTENDS Integers, Sequences, FiniteSets, TLC

\* ---------------------------------------------------------------- bounds
NumIdentities == 2
MaxInvocations == 2
MaxRows == 3
NumRuns == 2

\* ---------------------------------------------------------------- values
NullV == [tag |-> "null"]
NullRole == "<null>"
NoUser == 0
Identities == 1..NumIdentities
ErrTexts == {"network down", "permission denied"}

MsgNoSession == "No active session. Please log in."
MsgStatusFailed == "Failed to check admin status."
MsgNotAuthenticated == "User is not authenticated."
MsgVerified == "Admin access verified successfully."
MsgSynced == "Admin role synced. Please refresh the page or log out and log back in."
MsgContactSupport == "Admin privileges not found. Contact support if you should have admin access."
MsgGeneric == "Failed to verify admin access."

Roles == {"admin", "client", NullRole}

\* AdminStatus: the fields the reconciliation reads, plus user_id
AdminStatus == [tag : {"status"}, authenticated : BOOLEAN, user_id : Identities \cup {NoUser},
                profile_role : Roles, metadata_role : Roles, is_admin_result : BOOLEAN]

Session == [tag : {"session"}, user_id : Identities]
ErrorObj == [tag : {"error"}, message : ErrTexts]

\* Outcomes of an awaited call: it throws, or it resolves to a value
Thrown(t) == [kind |-> "throw", text |-> t]
Resolved(e, d) == [kind |-> "ok", error |-> e, data |-> d]
Throws == {Thrown(t) : t \in ErrTexts}

\* supabase.auth.getSession(): { data: { session }, error }
SessionResponses == Throws
                    \cup {Resolved(e, NullV) : e \in ErrorObj}
                    \cup {Resolved(NullV, s) : s \in Session \cup {NullV}}
\* supabase.rpc('debug_admin_status'): { data, error }
StatusResponses == Throws
                   \cup {Resolved(e, NullV) : e \in ErrorObj}
                   \cup {Resolved(NullV, s) : s \in AdminStatus \cup {NullV}}
\* supabase.rpc('sync_user_admin_role'): { data, error }
SyncPayloads == {[tag |-> "bool", value |-> TRUE], [tag |-> "bool", value |-> FALSE], NullV}
SyncResponses == Throws
                 \cup {Resolved(e, NullV) : e \in ErrorObj}
                 \cup {Resolved(NullV, d) : d \in SyncPayloads}

\* Result of calling a local async method: returns a value or throws
Return(v) == [threw |-> FALSE, value |-> v, text |-> ""]
Throw(t) == [threw |-> TRUE, value |-> NullV, text |-> t]

\* What verifyAndFixAdminAccess does next: return a verdict, or issue a call
Verdict(s, m) == [success |-> s, message |-> m]
Ret(v) == [tag |-> "return", verdict |-> v, caught |-> ""]
Call(op, arg) == [tag |-> "call", op |-> op, arg |-> arg]

\* pc           await point the invocation is suspended at (lines 110, 64, 85)
\* invocations  how many times verifyAndFixAdminAccess has been invoked
\* calls        remote calls issued by the current invocation, in order
\* sessionResp  what getSession() settled to (line 110); session: its session
\* statusResp   what rpc('debug_admin_status') settled to (line 64)
\* adminStatus  value returned by getAdminStatus() (line 120)
\* syncResp     what rpc('sync_user_admin_role') settled to (line 85)
\* synced       value returned by syncAdminRole() (line 147)
\* verdict      value the invocation returned; verdictCount: how many returns
\* caught       text of the error that reached the catch block (line 161)
\* raised       an exception left verifyAndFixAdminAccess
VARIABLES pc, invocations, calls, sessionResp, session, statusResp, adminStatus,
          syncResp, synced, verdict, verdictCount, caught, raised

verifyVars == <<pc, invocations, calls, sessionResp, session, statusResp, adminStatus,
                syncResp, synced, verdict, verdictCount, caught, raised>>

\* One call of another AdminService method (lines 42-56, 82-100, 170-291):
\* svcPc      "idle", "awaiting" its remote call, or "done"
\* svcOp      the method called; svcArgs: its arguments
\* svcCalls   the remote requests the call has issued, in order
\* svcResp    what the remote request settled to
\* svcResult  what the method returned to its caller, or the error it threw
VARIABLES svcPc, svcOp, svcArgs, svcCalls, svcResp, svcResult

svcVars == <<svcPc, svcOp, svcArgs, svcCalls, svcResp, svcResult>>

\* Invocations of verifyAndFixAdminAccess running against one authority:
\* authority  the role signals the authority stores for the logged-in user
\* runs       per invocation: its await point, snapshot, calls and verdict
VARIABLES authority, runs

authVars == <<authority, runs>>

\* AdminDebugPanel (src/components/admin/AdminDebugPanel.tsx):
\* panelAdminStatus, isLoading, panelError  the useState cells of lines 19-21
\* panelPc      "idle", or the remote call the running handler awaits
\* panelPrev    adminStatus as it was when the current run started
\* panelResp    the last response the current run received; panelStage: to
\*              which call ("check", "verify" or "nested")
\* alertText    the text of the last alert() (line 62)
VARIABLES panelAdminStatus, isLoading, panelError, panelPc, panelPrev, panelResp,
          panelStage, alertText

panelVars == <<panelAdminStatus, isLoading, panelError, panelPc, panelPrev, panelResp,
               panelStage, alertText>>

vars == <<verifyVars, svcVars, authVars, panelVars>>
\* --------------------------------------------------------- the service
\* variant: no try/catch, the exception propagates
getAdminStatus_NoCatch(r) ==
    IF r.kind = "throw" THEN Throw(r.text)
    ELSE IF r.error # NullV THEN Return(NullV)
    ELSE Return(r.data)

\* getAdminStatus (lines 61-77): null on a reported error or an exception
getAdminStatus(r) ==
    IF r.kind = "throw" THEN Return(NullV)
    ELSE IF r.error # NullV THEN Return(NullV)
    ELSE Return(r.data)

\* variant: the reported error is ignored
syncAdminRole_IgnoreError(r) ==
    IF r.kind = "throw" THEN Return(FALSE)
    ELSE Return(TRUE)

\* variant: the payload is returned as the outcome
syncAdminRole_ReturnPayload(r) ==
    IF r.kind = "throw" THEN Return(FALSE)
    ELSE IF r.error # NullV THEN Return(FALSE)
    ELSE Return(r.data = [tag |-> "bool", value |-> TRUE])

\* syncAdminRole (lines 82-100): true iff the call reported no error
syncAdminRole(r) ==
    IF r.kind = "throw" THEN Return(FALSE)
    ELSE IF r.error # NullV THEN Return(FALSE)
    ELSE Return(TRUE)

\* variant: the catch block rethrows
CatchAll_Rethrow(t) == [tag |-> "raise", text |-> t]

\* variant: the catch block reports the error's own text
CatchAll_LeakText(t) == [tag |-> "return", verdict |-> Verdict(FALSE, t), caught |-> t]

\* catch block of verifyAndFixAdminAccess (lines 161-167)
CatchAll(t) == [tag |-> "return", verdict |-> Verdict(FALSE, MsgGeneric), caught |-> t]

\* variant: only the reported error is examined
NoSessionCheck_ErrorOnly(r) == r.error # NullV

\* line 112: sessionError || !session
NoSessionCheck(r) == r.error # NullV \/ r.data = NullV

\* lines 110-120: continuation after the session read
AfterSession(r) ==
    IF r.kind = "throw" THEN CatchAll(r.text)
    ELSE IF NoSessionCheck(r) THEN Ret(Verdict(FALSE, MsgNoSession))
    ELSE Call("debug_admin_status", NoUser)

\* variant: any profile that is not admin counts as a mismatch
RoleMismatch_ProfileOnly(st) == st.profile_role # "admin"

\* variant: the profile test is inverted (=== for !==)
RoleMismatch_Inverted(st) == st.metadata_role = "admin" /\ st.profile_role = "admin"

\* variant: only the metadata role is examined
RoleMismatch_MetadataOnly(st) == st.metadata_role = "admin"

\* line 145: metadata says admin, profile does not
RoleMismatch(st) == st.metadata_role = "admin" /\ st.profile_role # "admin"

\* variant: profile_role "admin" is taken as proof of admin access
AfterStatus_TrustProfile(res, sess) ==
    IF res.threw THEN CatchAll(res.text)
    ELSE IF res.value = NullV THEN Ret(Verdict(FALSE, MsgStatusFailed))
    ELSE IF ~res.value.authenticated THEN Ret(Verdict(FALSE, MsgNotAuthenticated))
    ELSE IF res.value.is_admin_result \/ res.value.profile_role = "admin"
         THEN Ret(Verdict(TRUE, MsgVerified))
    ELSE IF RoleMismatch(res.value)
         THEN IF sess = NullV THEN CatchAll("TypeError")
              ELSE Call("sync_user_admin_role", sess.user_id)
    ELSE Ret(Verdict(FALSE, MsgContactSupport))

\* variant: the role mismatch is examined before is_admin_result
AfterStatus_MismatchFirst(res, sess) ==
    IF res.threw THEN CatchAll(res.text)
    ELSE IF res.value = NullV THEN Ret(Verdict(FALSE, MsgStatusFailed))
    ELSE IF ~res.value.authenticated THEN Ret(Verdict(FALSE, MsgNotAuthenticated))
    ELSE IF RoleMismatch(res.value)
         THEN IF sess = NullV THEN CatchAll("TypeError")
              ELSE Call("sync_user_admin_role", sess.user_id)
    ELSE IF res.value.is_admin_result THEN Ret(Verdict(TRUE, MsgVerified))
    ELSE Ret(Verdict(FALSE, MsgContactSupport))

\* variant: is_admin_result is examined before authenticated
AfterStatus_AdminFirst(res, sess) ==
    IF res.threw THEN CatchAll(res.text)
    ELSE IF res.value = NullV THEN Ret(Verdict(FALSE, MsgStatusFailed))
    ELSE IF res.value.is_admin_result THEN Ret(Verdict(TRUE, MsgVerified))
    ELSE IF ~res.value.authenticated THEN Ret(Verdict(FALSE, MsgNotAuthenticated))
    ELSE IF RoleMismatch(res.value)
         THEN IF sess = NullV THEN CatchAll("TypeError")
              ELSE Call("sync_user_admin_role", sess.user_id)
    ELSE Ret(Verdict(FALSE, MsgContactSupport))

\* variant: the sync targets the user_id reported in the snapshot
AfterStatus_UseSnapshotId(res, sess) ==
    IF res.threw THEN CatchAll(res.text)
    ELSE IF res.value = NullV THEN Ret(Verdict(FALSE, MsgStatusFailed))
    ELSE IF ~res.value.authenticated THEN Ret(Verdict(FALSE, MsgNotAuthenticated))
    ELSE IF res.value.is_admin_result THEN Ret(Verdict(TRUE, MsgVerified))
    ELSE IF RoleMismatch(res.value)
         THEN IF sess = NullV THEN CatchAll("TypeError")
              ELSE Call("sync_user_admin_role", res.value.user_id)
    ELSE Ret(Verdict(FALSE, MsgContactSupport))

\* lines 120-160: continuation after getAdminStatus, up to the sync call
AfterStatus(res, sess) ==
    IF res.threw THEN CatchAll(res.text)
    ELSE IF res.value = NullV THEN Ret(Verdict(FALSE, MsgStatusFailed))
    ELSE IF ~res.value.authenticated THEN Ret(Verdict(FALSE, MsgNotAuthenticated))
    ELSE IF res.value.is_admin_result THEN Ret(Verdict(TRUE, MsgVerified))
    ELSE IF RoleMismatch(res.value)
         THEN IF sess = NullV THEN CatchAll("TypeError")
              ELSE Call("sync_user_admin_role", sess.user_id)
    ELSE Ret(Verdict(FALSE, MsgContactSupport))

\* variant: a failed sync is tried once more
AfterSync_RetryOnce(res) ==
    IF res.threw THEN CatchAll(res.text)
    ELSE IF res.value THEN Ret(Verdict(TRUE, MsgSynced))
    ELSE IF Len(calls) < 4 THEN Call("sync_user_admin_role", session.user_id)
    ELSE Ret(Verdict(FALSE, MsgContactSupport))

\* lines 147-160: continuation after syncAdminRole
AfterSync(res) ==
    IF res.threw THEN CatchAll(res.text)
    ELSE IF res.value THEN Ret(Verdict(TRUE, MsgSynced))
    ELSE Ret(Verdict(FALSE, MsgContactSupport))

\* ------------------------------------------------------------- actions
VerifyInit ==
    /\ pc = "idle"
    /\ invocations = 0
    /\ calls = <<>>
    /\ sessionResp = NullV
    /\ session = NullV
    /\ statusResp = NullV
    /\ adminStatus = NullV
    /\ syncResp = NullV
    /\ synced = FALSE
    /\ verdict = NullV
    /\ verdictCount = 0
    /\ caught = ""
    /\ raised = FALSE

SvcInit ==
    /\ svcPc = "idle"
    /\ svcOp = ""
    /\ svcArgs = NullV
    /\ svcCalls = <<>>
    /\ svcResp = NullV
    /\ svcResult = NullV

\* no authority is attached
AuthOff ==
    /\ authority = NullV
    /\ runs = <<>>

\* lines 19-21: the panel as first rendered
PanelInit ==
    /\ panelAdminStatus = NullV
    /\ isLoading = FALSE
    /\ panelError = NullV
    /\ panelPc = "idle"
    /\ panelPrev = NullV
    /\ panelResp = NullV
    /\ panelStage = "none"
    /\ alertText = ""

Init == VerifyInit /\ SvcInit /\ AuthOff /\ PanelInit

\* Carry out a continuation: return a verdict, let an exception escape, or
\* issue the next remote call and suspend on it.
AwaitOf(op) == IF op = "debug_admin_status" THEN "awaitStatus" ELSE "awaitSync"

Proceed(step) ==
    IF step.tag = "call"
    THEN /\ calls' = Append(calls, [op |-> step.op, arg |-> step.arg])
         /\ pc' = AwaitOf(step.op)
         /\ UNCHANGED <<verdict, verdictCount, caught, raised>>
    ELSE IF step.tag = "return"
    THEN /\ verdict' = step.verdict
         /\ verdictCount' = verdictCount + 1
         /\ caught' = step.caught
         /\ pc' = "done"
         /\ UNCHANGED <<calls, raised>>
    ELSE /\ raised' = TRUE
         /\ pc' = "done"
         /\ UNCHANGED <<calls, verdict, verdictCount, caught>>

\* A caller invokes verifyAndFixAdminAccess(); it runs to line 110 and
\* suspends on supabase.auth.getSession().  Nothing survives from an
\* earlier invocation.
Invoke ==
    /\ pc \in {"idle", "done"}
    /\ invocations < MaxInvocations
    /\ invocations' = invocations + 1
    /\ calls' = <<[op |-> "getSession", arg |-> NoUser]>>
    /\ pc' = "awaitSession"
    /\ sessionResp' = NullV
    /\ session' = NullV
    /\ statusResp' = NullV
    /\ adminStatus' = NullV
    /\ syncResp' = NullV
    /\ synced' = FALSE
    /\ verdict' = NullV
    /\ verdictCount' = 0
    /\ caught' = ""
    /\ raised' = FALSE
    /\ UNCHANGED <<svcVars, authVars, panelVars>>

\* getSession() settles (lines 110-120)
SessionReturns(r) ==
    /\ pc = "awaitSession"
    /\ sessionResp' = r
    /\ session' = IF r.kind = "ok" THEN r.data ELSE NullV
    /\ Proceed(AfterSession(r))
    /\ UNCHANGED <<invocations, statusResp, adminStatus, syncResp, synced>>
    /\ UNCHANGED <<svcVars, authVars, panelVars>>

\* rpc('debug_admin_status') settles inside getAdminStatus (lines 64-160)
StatusReturns(r) ==
    /\ pc = "awaitStatus"
    /\ statusResp' = r
    /\ LET res == getAdminStatus(r) IN
         /\ adminStatus' = res.value
         /\ Proceed(AfterStatus(res, session))
    /\ UNCHANGED <<invocations, sessionResp, session, syncResp, synced>>
    /\ UNCHANGED <<svcVars, authVars, panelVars>>

\* rpc('sync_user_admin_role') settles inside syncAdminRole (lines 85-160)
SyncReturns(r) ==
    /\ pc = "awaitSync"
    /\ syncResp' = r
    /\ LET res == syncAdminRole(r) IN
         /\ synced' = (~res.threw /\ res.value)
         /\ Proceed(AfterSync(res))
    /\ UNCHANGED <<invocations, sessionResp, session, statusResp, adminStatus>>
    /\ UNCHANGED <<svcVars, authVars, panelVars>>

Next ==
    \/ Invoke
    \/ \E r \in SessionResponses : SessionReturns(r)
    \/ \E r \in StatusResponses : StatusReturns(r)
    \/ \E r \in SyncResponses : SyncReturns(r)

Spec == Init /\ [][Next]_vars

\* Every remote call eventually completes or fails
FairSpec == Spec /\ WF_vars(\E r \in SessionResponses : SessionReturns(r))
                 /\ WF_vars(\E r \in StatusResponses : StatusReturns(r))
                 /\ WF_vars(\E r \in SyncResponses : SyncReturns(r))

TypeOK ==
    /\ pc \in {"idle", "awaitSession", "awaitStatus", "awaitSync", "done"}
    /\ invocations \in 0..MaxInvocations
    /\ adminStatus \in AdminStatus \cup {NullV}
    /\ session \in Session \cup {NullV}
    /\ raised \in BOOLEAN
\* ------------------------------------------------------ observations
Ops == [i \in 1..Len(calls) |-> calls[i].op]
SyncCount == Cardinality({i \in 1..Len(calls) : calls[i].op = "sync_user_admin_role"})
StatusCount == Cardinality({i \in 1..Len(calls) : calls[i].op = "debug_admin_status"})
Done == pc = "done"
HasSnapshot == adminStatus # NullV
\* the sync request was answered, and how
SyncAnswered == syncResp # NullV
SyncReportedSuccess == SyncAnswered /\ syncResp.kind = "ok" /\ syncResp.error = NullV
SyncFailed == SyncAnswered /\ (syncResp.kind = "throw" \/ syncResp.error # NullV)

\* ---------------------------------------------------------------- C1
\* C1: with a live session and a snapshot that is authenticated, not admin
\* by the authority's verdict, metadata_role "admin" and profile_role not
\* "admin", exactly one sync request is sent; when it reports success the
\* verdict is success with the "synced" message, when it fails the verdict
\* is the "Contact support" failure.
C1_Case ==
    /\ session # NullV
    /\ HasSnapshot
    /\ adminStatus.authenticated
    /\ ~adminStatus.is_admin_result
    /\ adminStatus.metadata_role = "admin"
    /\ adminStatus.profile_role # "admin"

C1_RepairableDivergence ==
    C1_Case =>
        /\ SyncCount = 1
        /\ pc \in {"awaitSync", "done"}
        /\ Done => SyncAnswered
        /\ (Done /\ SyncReportedSuccess) => verdict = Verdict(TRUE, MsgSynced)
        /\ (Done /\ SyncFailed) => verdict = Verdict(FALSE, MsgContactSupport)

C1_Witness ==
    /\ C1_Case
    /\ adminStatus.profile_role = NullRole
    /\ Done
    /\ SyncReportedSuccess
    /\ verdict = Verdict(TRUE, MsgSynced)

\* ---------------------------------------------------------------- C2
\* C2 as stated: for every snapshot with metadata_role not "admin" and
\* is_admin_result false (authenticated ranging freely) no sync request is
\* sent and the verdict is the "Contact support" failure.
C2_Case ==
    /\ HasSnapshot
    /\ adminStatus.metadata_role # "admin"
    /\ ~adminStatus.is_admin_result

C2_Original ==
    C2_Case =>
        /\ SyncCount = 0
        /\ Done
        /\ verdict = Verdict(FALSE, MsgContactSupport)

\* C2 amended: for every such snapshot no sync request is sent; the verdict
\* is the "Contact support" failure when authenticated is true and the
\* "User is not authenticated." failure when it is false.
C2_NoSyncWithoutMetadataAdmin ==
    C2_Case =>
        /\ SyncCount = 0
        /\ Done
        /\ adminStatus.authenticated => verdict = Verdict(FALSE, MsgContactSupport)
        /\ ~adminStatus.authenticated => verdict = Verdict(FALSE, MsgNotAuthenticated)

C2_Witness ==
    /\ C2_Case
    /\ adminStatus.authenticated
    /\ adminStatus.profile_role = "client"
    /\ adminStatus.metadata_role = "client"
    /\ Done
    /\ verdict = Verdict(FALSE, MsgContactSupport)

\* ---------------------------------------------------------------- C3
\* C3: never grants on profile_role alone.  A success verdict needs
\* is_admin_result true, or metadata_role "admin" with profile_role not
\* "admin" and a sync request that succeeded; a sync request is sent only
\* when metadata_role is "admin" and profile_role is not; a snapshot with
\* profile_role "admin", metadata_role not "admin" and is_admin_result
\* false gives a failure verdict and no sync request.
C3_NeverGrantsOnProfileRole ==
    /\ (Done /\ verdict # NullV /\ verdict.success) =>
          /\ HasSnapshot
          /\ \/ adminStatus.is_admin_result
             \/ /\ adminStatus.metadata_role = "admin"
                /\ adminStatus.profile_role # "admin"
                /\ SyncReportedSuccess
    /\ SyncCount > 0 =>
          /\ HasSnapshot
          /\ adminStatus.metadata_role = "admin"
          /\ adminStatus.profile_role # "admin"
    /\ (/\ HasSnapshot
        /\ adminStatus.profile_role = "admin"
        /\ adminStatus.metadata_role # "admin"
        /\ ~adminStatus.is_admin_result) =>
          /\ SyncCount = 0
          /\ Done
          /\ verdict # NullV
          /\ ~verdict.success

C3_Witness ==
    /\ HasSnapshot
    /\ adminStatus.authenticated
    /\ adminStatus.profile_role = "admin"
    /\ adminStatus.metadata_role = "client"
    /\ ~adminStatus.is_admin_result
    /\ Done
    /\ verdict = Verdict(FALSE, MsgContactSupport)
    /\ SyncCount = 0

\* ---------------------------------------------------------------- C4
\* C4 as stated: every snapshot with is_admin_result true (authenticated
\* ranging freely) gives a success verdict.
C4_Original ==
    (HasSnapshot /\ adminStatus.is_admin_result) =>
        (Done /\ verdict # NullV /\ verdict.success)

\* C4 amended: every snapshot with authenticated true and is_admin_result
\* true gives a success verdict, whatever profile_role and metadata_role.
C4_AlreadyAdmin ==
    (HasSnapshot /\ adminStatus.authenticated /\ adminStatus.is_admin_result) =>
        (Done /\ verdict # NullV /\ verdict.success)

C4_Witness ==
    /\ HasSnapshot
    /\ adminStatus.authenticated
    /\ adminStatus.is_admin_result
    /\ adminStatus.metadata_role = "admin"
    /\ adminStatus.profile_role = "client"
    /\ Done
    /\ verdict = Verdict(TRUE, MsgVerified)

\* ---------------------------------------------------------------- C5
\* C5: every snapshot with authenticated false gives the failure verdict
\* "User is not authenticated." whatever the roles and is_admin_result,
\* and no sync request is sent.
C5_Unauthenticated ==
    (HasSnapshot /\ ~adminStatus.authenticated) =>
        (Done /\ verdict = Verdict(FALSE, MsgNotAuthenticated) /\ SyncCount = 0)

C5_Witness ==
    /\ HasSnapshot
    /\ ~adminStatus.authenticated
    /\ adminStatus.is_admin_result
    /\ adminStatus.metadata_role = "admin"
    /\ adminStatus.profile_role = "client"
    /\ Done
    /\ verdict = Verdict(FALSE, MsgNotAuthenticated)
\* ---------------------------------------------------------------- C6
\* C6: when the session read yields no session or reports an error, the
\* verdict is the "No active session" failure and the invocation has
\* issued neither the status call nor a sync request.
C6_Case ==
    /\ sessionResp # NullV
    /\ sessionResp.kind = "ok"
    /\ (sessionResp.error # NullV \/ sessionResp.data = NullV)

C6_NoSessionShortCircuit ==
    C6_Case =>
        /\ Done
        /\ verdict = Verdict(FALSE, MsgNoSession)
        /\ Ops = <<"getSession">>
        /\ statusResp = NullV
        /\ syncResp = NullV

C6_Witness ==
    /\ C6_Case
    /\ sessionResp.error = NullV
    /\ Done
    /\ verdict = Verdict(FALSE, MsgNoSession)
    /\ StatusCount = 0

\* ---------------------------------------------------------------- C7
\* C7: with a session, when the status call reports an error, throws or
\* returns null, the verdict is the "Failed to check admin status."
\* failure and no sync request is sent.
C7_Case ==
    /\ session # NullV
    /\ statusResp # NullV
    /\ \/ statusResp.kind = "throw"
       \/ statusResp.error # NullV
       \/ statusResp.data = NullV

C7_SnapshotUnavailable ==
    C7_Case =>
        /\ Done
        /\ verdict = Verdict(FALSE, MsgStatusFailed)
        /\ SyncCount = 0

C7_Witness ==
    /\ C7_Case
    /\ statusResp.kind = "throw"
    /\ Done
    /\ verdict = Verdict(FALSE, MsgStatusFailed)

\* ---------------------------------------------------------------- C8
\* C8: no exception escapes to the caller; a finished invocation always
\* holds a verdict; and when an exception reached the catch block the
\* verdict is the failure with the generic message, which is not the text
\* of the underlying error.
FixedMessages == {MsgNoSession, MsgStatusFailed, MsgNotAuthenticated, MsgVerified,
                  MsgSynced, MsgContactSupport, MsgGeneric}

StepThrew ==
    \/ (sessionResp # NullV /\ sessionResp.kind = "throw")
    \/ (statusResp # NullV /\ statusResp.kind = "throw")
    \/ (syncResp # NullV /\ syncResp.kind = "throw")

C8_NeverRaises ==
    /\ ~raised
    /\ Done => /\ verdict # NullV
               /\ verdict.success \in BOOLEAN
    /\ (Done /\ StepThrew) => verdict.message \notin ErrTexts
    /\ (sessionResp # NullV /\ sessionResp.kind = "throw") =>
          /\ Done
          /\ caught = sessionResp.text
          /\ verdict = Verdict(FALSE, MsgGeneric)
    /\ caught # "" => (verdict = Verdict(FALSE, MsgGeneric) /\ verdict.message # caught)

C8_Witness ==
    /\ sessionResp # NullV
    /\ sessionResp.kind = "throw"
    /\ Done
    /\ caught \in ErrTexts
    /\ verdict = Verdict(FALSE, MsgGeneric)

\* ---------------------------------------------------------------- C9
\* C9: when every remote call eventually completes or fails, an invocation
\* that has started runs to completion, and a completed invocation has
\* produced exactly one verdict whose message is one of the seven fixed
\* strings.
Started == pc \in {"awaitSession", "awaitStatus", "awaitSync"}

C9_RunsToOneVerdict ==
    /\ [](verdictCount <= 1)
    /\ [](Done => /\ verdictCount = 1
                  /\ verdict # NullV
                  /\ verdict.message \in FixedMessages)
    /\ (Started ~> Done)

C9_Witness ==
    /\ Done
    /\ verdictCount = 1
    /\ Len(calls) = 3
    /\ verdict.message = MsgSynced

\* --------------------------------------------------------------- C10
\* C10: within one invocation the calls issued are a prefix of: session
\* read, snapshot fetch, sync request (each at most once, in that order);
\* a call that failed is not re-issued and the invocation ends in failure.
CallOrder == <<"getSession", "debug_admin_status", "sync_user_admin_role">>

SessionFailed ==
    sessionResp # NullV /\ (sessionResp.kind = "throw" \/ sessionResp.error # NullV)
StatusFailed ==
    statusResp # NullV /\ (statusResp.kind = "throw" \/ statusResp.error # NullV)

C10_NoRetries ==
    /\ Len(calls) <= 3
    /\ \A i \in 1..Len(calls) : i <= 3 => calls[i].op = CallOrder[i]
    /\ SessionFailed => (Done /\ Len(calls) = 1 /\ verdict # NullV /\ ~verdict.success)
    /\ StatusFailed => (Done /\ Len(calls) = 2 /\ verdict # NullV /\ ~verdict.success)
    /\ SyncFailed => (Done /\ Len(calls) = 3 /\ verdict # NullV /\ ~verdict.success)

C10_Witness ==
    /\ SyncFailed
    /\ Done
    /\ Ops = CallOrder
    /\ verdict = Verdict(FALSE, MsgContactSupport)
\* --------------------------------------------------------------- C19
\* C19: every sync request of an invocation carries the identity of the
\* session read at the start of that invocation, also when the snapshot
\* reports another user_id or none.
C19_SyncTargetsSessionUser ==
    \A i \in 1..Len(calls) :
        calls[i].op = "sync_user_admin_role" =>
            /\ sessionResp # NullV
            /\ sessionResp.kind = "ok"
            /\ sessionResp.data # NullV
            /\ calls[i].arg = sessionResp.data.user_id

C19_Witness ==
    /\ SyncCount = 1
    /\ HasSnapshot
    /\ adminStatus.user_id \in Identities
    /\ adminStatus.user_id # sessionResp.data.user_id
    /\ calls[3].arg = sessionResp.data.user_id
\* ------------------------------------------ the other service methods
\* payloads that are not the boolean true/false
StrV == [tag |-> "string", str |-> "true"]
NumV == [tag |-> "number", num |-> 1]
BoolV(b) == [tag |-> "bool", value |-> b]

\* error objects, with a possibly empty message; thrown values, which may
\* or may not be instances of Error
ErrorObjAny == [tag : {"error"}, message : ErrTexts \cup {""}]
ThrownValues == [kind : {"throw"}, isError : BOOLEAN, text : ErrTexts \cup {""}]
ErrorResponses == {Resolved(e, NullV) : e \in ErrorObjAny}

SeqsUpTo(S, n) == UNION {[1..k -> S] : k \in 0..n}
\* an array payload of at most n elements of S
ArraysOf(S, n) == {[tag |-> "rows", rows |-> q] : q \in SeqsUpTo(S, n)}

MsgGrantFailed == "Failed to grant admin role"
MsgRevokeFailed == "Failed to revoke admin role"
MsgAdminsFailed == "Failed to fetch admin users"
MsgUsersFailed == "Failed to fetch users"
MsgStatsFailed == "Failed to fetch user statistics"
TypeErrorText == "TypeError: Cannot read properties of null (reading 'length')"

\* what the authority may answer to each request
AdminCheckResponses == ThrownValues \cup ErrorResponses
    \cup {Resolved(NullV, d) : d \in {BoolV(TRUE), BoolV(FALSE), NullV, StrV, NumV}}
SvcSyncResponses == ThrownValues \cup ErrorResponses
    \cup {Resolved(NullV, d) : d \in SyncPayloads}
RoleOperationResult == [success : BOOLEAN, message : {"role updated", "user not found"}]
RoleOpResponses == ThrownValues \cup ErrorResponses
    \cup {Resolved(NullV, d) : d \in RoleOperationResult \cup {NullV} \cup {[user_id |-> i] : i \in Identities}}
AdminUser == [id : Identities]
AdminsResponses == ThrownValues \cup ErrorResponses
    \cup {Resolved(NullV, d) : d \in ArraysOf(AdminUser, MaxRows) \cup {NullV}}
UserListItem == [id : Identities, role : {"client", "admin"}]
UsersResponses == ThrownValues \cup ErrorResponses
    \cup {Resolved(NullV, d) : d \in ArraysOf(UserListItem, MaxRows) \cup {NullV}}
ProfileRow == [role : Roles, is_active : BOOLEAN]
StatsResponses == ThrownValues \cup ErrorResponses
    \cup {Resolved(NullV, d) : d \in ArraysOf(ProfileRow, MaxRows) \cup {NullV}}

\* variant: any truthy payload counts as admin
isCurrentUserAdmin_Truthy(r) ==
    IF r.kind = "throw" THEN Return(FALSE)
    ELSE IF r.error # NullV THEN Return(FALSE)
    ELSE Return(r.data \notin {NullV, BoolV(FALSE)})

\* isCurrentUserAdmin (lines 42-56)
isCurrentUserAdmin(r) ==
    IF r.kind = "throw" THEN Return(FALSE)
    ELSE IF r.error # NullV THEN Return(FALSE)
    ELSE Return(r.data = BoolV(TRUE))

\* error.message || fallback
OrElse(text, fallback) == IF text # "" THEN text ELSE fallback

RoleOpFailure(m) == [success |-> FALSE, message |-> m]

\* variant: the fixed message is reported whatever the error says
grantAdminRole_FixedMessage(r) ==
    IF r.kind = "throw" THEN Return(RoleOpFailure(MsgGrantFailed))
    ELSE IF r.error # NullV THEN Return(RoleOpFailure(MsgGrantFailed))
    ELSE Return(r.data)

\* grantAdminRole (lines 170-192)
grantAdminRole(r) ==
    IF r.kind = "throw"
    THEN Return(RoleOpFailure(IF r.isError THEN r.text ELSE MsgGrantFailed))
    ELSE IF r.error # NullV
    THEN Return(RoleOpFailure(OrElse(r.error.message, MsgGrantFailed)))
    ELSE Return(r.data)

\* revokeAdminRole (lines 194-216)
revokeAdminRole(r) ==
    IF r.kind = "throw"
    THEN Return(RoleOpFailure(IF r.isError THEN r.text ELSE MsgRevokeFailed))
    ELSE IF r.error # NullV
    THEN Return(RoleOpFailure(OrElse(r.error.message, MsgRevokeFailed)))
    ELSE Return(r.data)

\* variant: a failure is turned into an empty list
getAllAdmins_EmptyOnError(r) ==
    IF r.kind = "throw" THEN Return([tag |-> "rows", rows |-> <<>>])
    ELSE IF r.error # NullV THEN Return([tag |-> "rows", rows |-> <<>>])
    ELSE Return(r.data)

\* getAllAdmins (lines 218-232): the catch block rethrows
getAllAdmins(r) ==
    IF r.kind = "throw" THEN Throw(r.text)
    ELSE IF r.error # NullV THEN Throw(OrElse(r.error.message, MsgAdminsFailed))
    ELSE Return(r.data)

\* getAllUsers (lines 234-258): the catch block rethrows
getAllUsers(r) ==
    IF r.kind = "throw" THEN Throw(r.text)
    ELSE IF r.error # NullV THEN Throw(OrElse(r.error.message, MsgUsersFailed))
    ELSE Return(r.data)

\* data.filter(...).length (lines 277-279)
CountAdmins(rows) == Len(SelectSeq(rows, LAMBDA u : u.role = "admin"))
CountClients(rows) == Len(SelectSeq(rows, LAMBDA u : u.role = "client"))
CountActive(rows) == Len(SelectSeq(rows, LAMBDA u : u.is_active))

\* variant: every record that is not an admin is counted as a client
getUserStats_ClientsAsRest(r) ==
    IF r.kind = "throw" THEN Throw(r.text)
    ELSE IF r.error # NullV THEN Throw(MsgStatsFailed)
    ELSE IF r.data = NullV THEN Throw(TypeErrorText)
    ELSE Return([totalUsers |-> Len(r.data.rows),
                 totalAdmins |-> CountAdmins(r.data.rows),
                 totalClients |-> Len(r.data.rows) - CountAdmins(r.data.rows),
                 activeUsers |-> CountActive(r.data.rows)])

\* getUserStats (lines 260-291): data.length throws on a null payload
getUserStats(r) ==
    IF r.kind = "throw" THEN Throw(r.text)
    ELSE IF r.error # NullV THEN Throw(MsgStatsFailed)
    ELSE IF r.data = NullV THEN Throw(TypeErrorText)
    ELSE Return([totalUsers |-> Len(r.data.rows),
                 totalAdmins |-> CountAdmins(r.data.rows),
                 totalClients |-> CountClients(r.data.rows),
                 activeUsers |-> CountActive(r.data.rows)])

\* the remote requests the methods issue
RpcRequest(name, params) == [rpc |-> name, params |-> params]
TargetUser(userId) == [target_user_id |-> userId]
\* variant: limit and offset change places
GetAllUsersRequest_SwapLimitOffset(searchQuery, roleFilter, limitCount, offsetCount) ==
    RpcRequest("get_all_users", [search_query |-> searchQuery, role_filter |-> roleFilter,
                                 limit_count |-> offsetCount, offset_count |-> limitCount])

\* lines 241-246
GetAllUsersRequest(searchQuery, roleFilter, limitCount, offsetCount) ==
    RpcRequest("get_all_users", [search_query |-> searchQuery, role_filter |-> roleFilter,
                                 limit_count |-> limitCount, offset_count |-> offsetCount])
\* lines 267-269
GetUserStatsRequest == [from |-> "user_profiles", select |-> "role, is_active"]

\* arguments callers pass to getAllUsers; the defaults of lines 235-238 first
SearchQueries == {"", "ann"}
RoleFilters == {"all", "client", "admin"}
LimitCounts == {50, 10}
OffsetCounts == {0, 10}

SvcFree == svcPc \in {"idle", "done"}

\* A method is called: it issues its single remote request and suspends
SvcIssue(op, args, request) ==
    /\ SvcFree
    /\ svcOp' = op
    /\ svcArgs' = args
    /\ svcCalls' = <<request>>
    /\ svcResp' = NullV
    /\ svcResult' = NullV
    /\ svcPc' = "awaiting"
    /\ UNCHANGED <<verifyVars, authVars, panelVars>>

CallIsCurrentUserAdmin ==
    SvcIssue("isCurrentUserAdmin", NullV, RpcRequest("is_current_user_admin", NullV))
CallSyncAdminRole(userId) ==
    SvcIssue("syncAdminRole", [userId |-> userId],
             RpcRequest("sync_user_admin_role", TargetUser(userId)))
CallGrantAdminRole(userId) ==
    SvcIssue("grantAdminRole", [userId |-> userId],
             RpcRequest("grant_admin_role", TargetUser(userId)))
CallRevokeAdminRole(userId) ==
    SvcIssue("revokeAdminRole", [userId |-> userId],
             RpcRequest("revoke_admin_role", TargetUser(userId)))
CallGetAllAdmins ==
    SvcIssue("getAllAdmins", NullV, RpcRequest("get_all_admins", NullV))
CallGetAllUsers(searchQuery, roleFilter, limitCount, offsetCount) ==
    SvcIssue("getAllUsers",
             [searchQuery |-> searchQuery, roleFilter |-> roleFilter,
              limitCount |-> limitCount, offsetCount |-> offsetCount],
             GetAllUsersRequest(searchQuery, roleFilter, limitCount, offsetCount))
CallGetUserStats ==
    SvcIssue("getUserStats", NullV, GetUserStatsRequest)

ResponsesOf(op) ==
    CASE op = "isCurrentUserAdmin" -> AdminCheckResponses
      [] op = "syncAdminRole" -> SvcSyncResponses
      [] op = "grantAdminRole" -> RoleOpResponses
      [] op = "revokeAdminRole" -> RoleOpResponses
      [] op = "getAllAdmins" -> AdminsResponses
      [] op = "getAllUsers" -> UsersResponses
      [] op = "getUserStats" -> StatsResponses

ResultOf(op, r) ==
    CASE op = "isCurrentUserAdmin" -> isCurrentUserAdmin(r)
      [] op = "syncAdminRole" -> syncAdminRole(r)
      [] op = "grantAdminRole" -> grantAdminRole(r)
      [] op = "revokeAdminRole" -> revokeAdminRole(r)
      [] op = "getAllAdmins" -> getAllAdmins(r)
      [] op = "getAllUsers" -> getAllUsers(r)
      [] op = "getUserStats" -> getUserStats(r)

\* The remote request settles and the method runs to its return or throw
SvcSettle(r) ==
    /\ svcPc = "awaiting"
    /\ r \in ResponsesOf(svcOp)
    /\ svcResp' = r
    /\ svcResult' = ResultOf(svcOp, r)
    /\ svcPc' = "done"
    /\ UNCHANGED <<svcOp, svcArgs, svcCalls, verifyVars, authVars, panelVars>>

AllSvcResponses == AdminCheckResponses \cup SvcSyncResponses \cup RoleOpResponses
                   \cup AdminsResponses \cup UsersResponses \cup StatsResponses

SvcNext ==
    \/ CallIsCurrentUserAdmin
    \/ \E u \in Identities : CallSyncAdminRole(u)
    \/ \E u \in Identities : CallGrantAdminRole(u)
    \/ \E u \in Identities : CallRevokeAdminRole(u)
    \/ CallGetAllAdmins
    \/ \E q \in SearchQueries, f \in RoleFilters, l \in LimitCounts, o \in OffsetCounts :
          CallGetAllUsers(q, f, l, o)
    \/ CallGetUserStats
    \/ \E r \in AllSvcResponses : SvcSettle(r)

SvcSpec == Init /\ [][SvcNext]_vars

SvcDone == svcPc = "done"
SvcRespFailed == svcResp # NullV /\ (svcResp.kind = "throw" \/ svcResp.error # NullV)
SvcRespData == svcResp # NullV /\ svcResp.kind = "ok" /\ svcResp.error = NullV
\* --------------------------------------------------------------- C12
\* C12: isCurrentUserAdmin never throws; it returns true only when the
\* call completed without error and the payload is the boolean true, and
\* false for a reported error, an exception, or any other payload.
C12_Case == svcOp = "isCurrentUserAdmin" /\ SvcDone

C12_AdminOnlyOnTrue ==
    C12_Case =>
        /\ ~svcResult.threw
        /\ svcResult.value \in BOOLEAN
        /\ svcResult.value <=>
              /\ SvcRespData
              /\ svcResp.data \in {[tag |-> "bool", value |-> b] : b \in BOOLEAN}
              /\ svcResp.data.value

C12_Witness ==
    /\ C12_Case
    /\ SvcRespData
    /\ svcResp.data = StrV
    /\ svcResult = Return(FALSE)

\* --------------------------------------------------------------- C13
\* C13: syncAdminRole never throws and returns true exactly when the
\* remote call completed without a reported error, whatever the payload.
C13_Case == svcOp = "syncAdminRole" /\ SvcDone

C13_SyncReportsRequestOutcome ==
    C13_Case =>
        /\ ~svcResult.threw
        /\ svcResult.value \in BOOLEAN
        /\ svcResult.value <=> SvcRespData

C13_Witness ==
    /\ C13_Case
    /\ SvcRespData
    /\ svcResp.data = [tag |-> "bool", value |-> FALSE]
    /\ svcResult = Return(TRUE)

\* --------------------------------------------------------------- C14
\* C14: when the remote call of grantAdminRole or revokeAdminRole reports
\* an error or throws, the method returns (does not throw) a result with
\* success false whose message is the error text; the fixed fallback
\* message appears only when that text is empty or the thrown value is
\* not an Error.
RoleOps == {"grantAdminRole", "revokeAdminRole"}
FallbackOf(op) == IF op = "grantAdminRole" THEN "Failed to grant admin role"
                  ELSE "Failed to revoke admin role"
SvcErrorText == IF svcResp.kind = "throw" THEN svcResp.text ELSE svcResp.error.message
SvcThrewNonError == svcResp.kind = "throw" /\ ~svcResp.isError

C14_Case == svcOp \in RoleOps /\ SvcDone /\ SvcRespFailed

C14_FailureCarriesErrorText ==
    C14_Case =>
        /\ ~svcResult.threw
        /\ svcResult.value.success = FALSE
        /\ \/ svcResult.value.message = SvcErrorText
           \/ /\ svcResult.value.message = FallbackOf(svcOp)
              /\ (SvcErrorText = "" \/ SvcThrewNonError)

C14_Witness ==
    /\ C14_Case
    /\ svcOp = "grantAdminRole"
    /\ svcResp.kind = "throw"
    /\ svcResp.isError
    /\ svcResp.text = "network down"
    /\ svcResult.value = [success |-> FALSE, message |-> "network down"]

\* --------------------------------------------------------------- C15
\* C15: for every outcome of the remote call, grantAdminRole and
\* revokeAdminRole return a structured result: a record with a boolean
\* success and a message.
IsStructured(v) ==
    /\ {"success", "message"} \subseteq DOMAIN v
    /\ v.success \in BOOLEAN

C15_AlwaysStructured ==
    (svcOp \in RoleOps /\ SvcDone) =>
        /\ ~svcResult.threw
        /\ IsStructured(svcResult.value)

\* --------------------------------------------------------------- C16
\* C16: when the remote call of getAllAdmins, getAllUsers or getUserStats
\* reports an error or throws, the method throws and returns no value.
ListOps == {"getAllAdmins", "getAllUsers", "getUserStats"}

C16_Case == svcOp \in ListOps /\ SvcDone /\ SvcRespFailed

C16_ReadsPropagateFailure ==
    C16_Case =>
        /\ svcResult.threw
        /\ svcResult.value = NullV

C16_Witness ==
    /\ C16_Case
    /\ svcOp = "getAllAdmins"
    /\ svcResp.kind = "ok"
    /\ svcResp.error.message = "permission denied"
    /\ svcResult.threw
    /\ svcResult.text = "permission denied"

\* --------------------------------------------------------------- C17
\* C17: getUserStats counts over the full fetched list: totalUsers is the
\* number of records, totalAdmins those with role admin, totalClients
\* those with role client, activeUsers those with is_active true; so
\* admins + clients <= total, active <= total, and admins + clients =
\* total when every role is client or admin.
C17_Case ==
    /\ svcOp = "getUserStats"
    /\ SvcDone
    /\ SvcRespData
    /\ svcResp.data # NullV

C17_StatsCountLocally ==
    C17_Case =>
        LET rows == svcResp.data.rows
            N(S) == Cardinality(S)
            st == svcResult.value
        IN /\ ~svcResult.threw
           /\ st.totalUsers = Len(rows)
           /\ st.totalAdmins = N({i \in DOMAIN rows : rows[i].role = "admin"})
           /\ st.totalClients = N({i \in DOMAIN rows : rows[i].role = "client"})
           /\ st.activeUsers = N({i \in DOMAIN rows : rows[i].is_active})
           /\ st.totalAdmins + st.totalClients <= st.totalUsers
           /\ st.activeUsers <= st.totalUsers
           /\ (\A i \in DOMAIN rows : rows[i].role \in {"client", "admin"})
                 => st.totalAdmins + st.totalClients = st.totalUsers

C17_Witness ==
    /\ C17_Case
    /\ Len(svcResp.data.rows) = 3
    /\ svcResult.value = [totalUsers |-> 3, totalAdmins |-> 1,
                          totalClients |-> 1, activeUsers |-> 2]

\* --------------------------------------------------------------- C18
\* C18: getAllUsers issues a single request that carries searchQuery,
\* roleFilter, limit and offset unchanged, and when no error is reported
\* it returns exactly the records of the response, in the same order.
C18_Case == svcOp = "getAllUsers" /\ svcPc \in {"awaiting", "done"}

C18_UsersPassThrough ==
    C18_Case =>
        /\ Len(svcCalls) = 1
        /\ svcCalls[1].rpc = "get_all_users"
        /\ svcCalls[1].params.search_query = svcArgs.searchQuery
        /\ svcCalls[1].params.role_filter = svcArgs.roleFilter
        /\ svcCalls[1].params.limit_count = svcArgs.limitCount
        /\ svcCalls[1].params.offset_count = svcArgs.offsetCount
        /\ (SvcDone /\ SvcRespData) =>
              /\ ~svcResult.threw
              /\ svcResult.value = svcResp.data

C18_Witness ==
    /\ C18_Case
    /\ SvcDone
    /\ svcArgs = [searchQuery |-> "", roleFilter |-> "admin", limitCount |-> 10, offsetCount |-> 0]
    /\ SvcRespData
    /\ svcResp.data # NullV
    /\ svcResp.data.rows = <<[id |-> 2, role |-> "admin"], [id |-> 1, role |-> "admin"],
                             [id |-> 2, role |-> "admin"]>>
    /\ svcResult.value.rows = svcResp.data.rows
\* ------------------------------- invocations against a stateful authority
\* The authority stores, for the logged-in user, profile_role,
\* metadata_role and its own admin verdict.  A sync that succeeds
\* overwrites profile_role from metadata_role; what it does to the
\* authority's verdict is not known, so both outcomes are allowed.
\* syncs counts the syncs applied; profile0 and is_admin0 remember the
\* initial signals.
TheUser == 1
Runs == 1..NumRuns

AuthorityStates == [profile_role : Roles, metadata_role : Roles, is_admin : BOOLEAN,
                    syncs : {0}, profile0 : Roles, is_admin0 : BOOLEAN]

AuthoritySnapshot(a) ==
    [tag |-> "status", authenticated |-> TRUE, user_id |-> TheUser,
     profile_role |-> a.profile_role, metadata_role |-> a.metadata_role,
     is_admin_result |-> a.is_admin]

ApplySync(a, isAdminAfter) ==
    [a EXCEPT !.profile_role = a.metadata_role, !.is_admin = isAdminAfter,
              !.syncs = a.syncs + 1]

\* one invocation that has not started
IdleRun == [pc |-> "idle", n |-> 0, calls |-> <<>>, session |-> NullV, adminStatus |-> NullV,
            syncOutcome |-> "none", verdict |-> NullV, raised |-> FALSE,
            lateStart |-> FALSE, lateFetch |-> FALSE]

AuthInit ==
    /\ authority \in AuthorityStates
    /\ authority.profile0 = authority.profile_role
    /\ authority.is_admin0 = authority.is_admin
    /\ runs = [p \in Runs |-> IdleRun]

\* the run after carrying out a continuation (as Proceed does)
RunProceed(run, step) ==
    IF step.tag = "call"
    THEN [run EXCEPT !.calls = Append(run.calls, [op |-> step.op, arg |-> step.arg]),
                     !.pc = AwaitOf(step.op)]
    ELSE IF step.tag = "return"
    THEN [run EXCEPT !.verdict = step.verdict, !.pc = "done"]
    ELSE [run EXCEPT !.raised = TRUE, !.pc = "done"]

\* lines 105-110: an invocation starts; it shares nothing with the others
AuthInvoke(p) ==
    /\ runs[p].pc \in {"idle", "done"}
    /\ runs[p].n < MaxInvocations
    /\ runs' = [runs EXCEPT ![p] =
                  [IdleRun EXCEPT !.pc = "awaitSession", !.n = runs[p].n + 1,
                                  !.calls = <<[op |-> "getSession", arg |-> NoUser]>>,
                                  !.lateStart = authority.syncs > 0]]
    /\ UNCHANGED <<authority, verifyVars, svcVars, panelVars>>

\* lines 110-120: the session read answers with the user's live session
AuthSessionReturns(p) ==
    /\ runs[p].pc = "awaitSession"
    /\ LET r == Resolved(NullV, [tag |-> "session", user_id |-> TheUser]) IN
         runs' = [runs EXCEPT ![p] =
                    RunProceed([runs[p] EXCEPT !.session = r.data], AfterSession(r))]
    /\ UNCHANGED <<authority, verifyVars, svcVars, panelVars>>

\* lines 64-160: the authority answers the status call with its current
\* signals, or the call fails
AuthStatusReturns(p, r) ==
    /\ runs[p].pc = "awaitStatus"
    /\ r \in {Resolved(NullV, AuthoritySnapshot(authority))}
             \cup {Resolved(e, NullV) : e \in ErrorObj}
    /\ LET res == getAdminStatus(r) IN
         runs' = [runs EXCEPT ![p] =
                    RunProceed([runs[p] EXCEPT !.adminStatus = res.value,
                                               !.lateFetch = authority.syncs > 0],
                               AfterStatus(res, runs[p].session))]
    /\ UNCHANGED <<authority, verifyVars, svcVars, panelVars>>

\* lines 85-160: the authority applies the sync and answers, or rejects it
AuthSyncReturns(p, ok, isAdminAfter) ==
    /\ runs[p].pc = "awaitSync"
    /\ ok => isAdminAfter \in {authority.is_admin, TRUE}
    /\ ~ok => isAdminAfter = authority.is_admin
    /\ authority' = IF ok THEN ApplySync(authority, isAdminAfter) ELSE authority
    /\ LET r == IF ok THEN Resolved(NullV, [tag |-> "bool", value |-> TRUE])
                      ELSE Resolved([tag |-> "error", message |-> "permission denied"], NullV)
       IN runs' = [runs EXCEPT ![p] =
                     RunProceed([runs[p] EXCEPT !.syncOutcome = IF ok THEN "ok" ELSE "failed"],
                                AfterSync(syncAdminRole(r)))]
    /\ UNCHANGED <<verifyVars, svcVars, panelVars>>

AuthNext ==
    \/ \E p \in Runs : AuthInvoke(p)
    \/ \E p \in Runs : AuthSessionReturns(p)
    \/ \E p \in Runs, r \in StatusResponses : AuthStatusReturns(p, r)
    \/ \E p \in Runs, ok \in BOOLEAN, b \in BOOLEAN : AuthSyncReturns(p, ok, b)

AuthSpecInit == VerifyInit /\ SvcInit /\ AuthInit /\ PanelInit

AuthSpec == AuthSpecInit /\ [][AuthNext]_vars

RunSyncCount(p) ==
    Cardinality({i \in 1..Len(runs[p].calls) : runs[p].calls[i].op = "sync_user_admin_role"})
RunDone(p) == runs[p].pc = "done"
RunHasSnapshot(p) == runs[p].adminStatus # NullV
\* the snapshot shows the repairable divergence
RunSawDivergence(p) ==
    /\ RunHasSnapshot(p)
    /\ runs[p].adminStatus.authenticated
    /\ ~runs[p].adminStatus.is_admin_result
    /\ runs[p].adminStatus.metadata_role = "admin"
    /\ runs[p].adminStatus.profile_role # "admin"

\* the verdict of an invocation that runs alone against the initial
\* signals and obtains its snapshot, its sync request (if it sends one)
\* being answered as syncOk says
AloneVerdict(a, syncOk) ==
    LET snapshot == [tag |-> "status", authenticated |-> TRUE, user_id |-> TheUser,
                     profile_role |-> a.profile0, metadata_role |-> a.metadata_role,
                     is_admin_result |-> a.is_admin0]
        step == AfterStatus(Return(snapshot), [tag |-> "session", user_id |-> TheUser])
    IN IF step.tag = "call"
       THEN AfterSync(syncAdminRole(
                IF syncOk THEN Resolved(NullV, [tag |-> "bool", value |-> TRUE])
                ELSE Resolved([tag |-> "error", message |-> "permission denied"], NullV))).verdict
       ELSE step.verdict
\* --------------------------------------------------------------- C11
\* C11 as stated: concurrent invocations for the same identity are not
\* coordinated: every invocation whose snapshot shows the repairable
\* divergence sends a sync request; once a sync has succeeded the
\* profile_role is admin; and every invocation returns the verdict it
\* would return running alone (the authority's sync working).
OwnSyncOk(p) == runs[p].syncOutcome # "failed"

C11_Original ==
    \A p \in Runs :
        /\ RunSawDivergence(p) => RunSyncCount(p) = 1
        /\ authority.syncs > 0 => authority.profile_role = "admin"
        /\ (RunDone(p) /\ RunHasSnapshot(p)) =>
              runs[p].verdict = AloneVerdict(authority, OwnSyncOk(p))

\* C11 amended: every invocation whose snapshot shows the repairable
\* divergence sends a sync request, so two that both fetch before either
\* sync completes both send one; once a sync has succeeded profile_role is
\* admin; an invocation whose snapshot was fetched before any sync
\* succeeded returns the verdict it would return alone; one whose snapshot
\* is fetched after a sync succeeded sees profile_role admin, sends no sync
\* request and returns the "verified" success or the "Contact support"
\* failure according to is_admin_result.
C11_UncoordinatedRuns ==
    \A p \in Runs :
        /\ RunSawDivergence(p) => RunSyncCount(p) = 1
        /\ authority.syncs > 0 => authority.profile_role = "admin"
        /\ (RunDone(p) /\ RunHasSnapshot(p) /\ ~runs[p].lateFetch) =>
              runs[p].verdict = AloneVerdict(authority, OwnSyncOk(p))
        /\ (RunHasSnapshot(p) /\ runs[p].lateFetch) =>
              /\ runs[p].adminStatus.profile_role = "admin"
              /\ RunSyncCount(p) = 0
              /\ RunDone(p)
              /\ runs[p].verdict =
                    IF runs[p].adminStatus.is_admin_result
                    THEN Verdict(TRUE, MsgVerified)
                    ELSE Verdict(FALSE, MsgContactSupport)

C11_Witness ==
    /\ \A p \in {1, 2} :
          /\ runs[p].n = 1
          /\ RunSawDivergence(p)
          /\ RunSyncCount(p) = 1
          /\ RunDone(p)
          /\ runs[p].verdict = Verdict(TRUE, MsgSynced)
    /\ authority.syncs = 2
    /\ authority.profile_role = "admin"

\* --------------------------------------------------------------- C20
\* C20: once a sync request has succeeded, an invocation started later
\* sends no sync request: its snapshot has profile_role admin, and its
\* verdict is success only when the snapshot's is_admin_result is true
\* and the "Contact support" failure otherwise.
C20_Case(p) == runs[p].lateStart /\ runs[p].pc # "idle"

C20_NoSyncAfterSync ==
    \A p \in Runs :
        C20_Case(p) =>
            /\ RunSyncCount(p) = 0
            /\ RunHasSnapshot(p) =>
                  /\ runs[p].adminStatus.profile_role = "admin"
                  /\ RunDone(p)
                  /\ runs[p].verdict.success <=> runs[p].adminStatus.is_admin_result
                  /\ ~runs[p].adminStatus.is_admin_result =>
                        runs[p].verdict = Verdict(FALSE, MsgContactSupport)

C20_Witness ==
    /\ C20_Case(1)
    /\ runs[1].n = 2
    /\ RunDone(1)
    /\ RunHasSnapshot(1)
    /\ ~runs[1].adminStatus.is_admin_result
    /\ runs[1].adminStatus.metadata_role = "admin"
    /\ runs[1].verdict = Verdict(FALSE, MsgContactSupport)
    /\ runs[2].n = 0
\* ------------------------------------------------------ AdminDebugPanel
\* The handlers work on the three state cells, gathered in a record.
PanelUi == [adminStatus |-> panelAdminStatus, isLoading |-> isLoading, error |-> panelError]

\* the text handed to setError: a fixed prefix and the error's own text
PanelErr(prefix, detail) == [tag |-> "text", prefix |-> prefix, detail |-> detail]
MsgUnknownError == "Unknown error occurred"
PrefixCheckFailed == "Failed to check admin status: "
PrefixVerifyFailed == "Failed to verify admin access: "
MsgVerificationComplete == "Verification complete"
NullMessageTypeError == "TypeError: Cannot read properties of null (reading 'message')"

\* lines 42, 66: err instanceof Error ? err.message : 'Unknown error occurred'
CaughtText(r) == IF r.isError THEN r.text ELSE MsgUnknownError

\* the snapshots the panel may be handed; it stores them without reading
PanelStatuses == {st \in AdminStatus : st.user_id = TheUser /\ st.authenticated}
PanelStatusResponses == ThrownValues \cup ErrorResponses
    \cup {Resolved(NullV, d) : d \in PanelStatuses \cup {NullV}}
VerifyResults == {[message |-> "Admin access verified"], [message |-> ""]}
PanelVerifyResponses == ThrownValues \cup ErrorResponses
    \cup {Resolved(NullV, d) : d \in VerifyResults \cup {NullV}}

\* lines 26-27 and 49-50: both handlers start alike
startLoading(ui) == [ui EXCEPT !.isLoading = TRUE, !.error = NullV]

\* variant: no finally block, the early return leaves isLoading set
checkAdminStatus_NoFinally(ui, r) ==
    IF r.kind = "throw"
    THEN [ui EXCEPT !.error = PanelErr("", CaughtText(r)), !.isLoading = FALSE]
    ELSE IF r.error # NullV
    THEN [ui EXCEPT !.error = PanelErr(PrefixCheckFailed, r.error.message)]
    ELSE [ui EXCEPT !.adminStatus = r.data, !.isLoading = FALSE]

\* checkAdminStatus from its await to its end (lines 30-45)
checkAdminStatus(ui, r) ==
    LET body == IF r.kind = "throw"
                THEN [ui EXCEPT !.error = PanelErr("", CaughtText(r))]
                ELSE IF r.error # NullV
                THEN [ui EXCEPT !.error = PanelErr(PrefixCheckFailed, r.error.message)]
                ELSE [ui EXCEPT !.adminStatus = r.data]
    IN [body EXCEPT !.isLoading = FALSE]

\* verifyAdminAccess from its await (line 53) to its end or to the await
\* inside the nested checkAdminStatus() of line 63
verifyAdminAccess(ui, r) ==
    IF r.kind = "throw"
    THEN [ui |-> [ui EXCEPT !.error = PanelErr("", CaughtText(r)), !.isLoading = FALSE],
          next |-> "end", alert |-> ""]
    ELSE IF r.error # NullV
    THEN [ui |-> [ui EXCEPT !.error = PanelErr(PrefixVerifyFailed, r.error.message),
                            !.isLoading = FALSE],
          next |-> "end", alert |-> ""]
    ELSE IF r.data = NullV
    THEN [ui |-> [ui EXCEPT !.error = PanelErr("", NullMessageTypeError), !.isLoading = FALSE],
          next |-> "end", alert |-> ""]
    ELSE [ui |-> startLoading(ui), next |-> "checkAdminStatus",
          alert |-> OrElse(r.data.message, MsgVerificationComplete)]

\* lines 63-69: the nested checkAdminStatus() ends, then the outer finally
verifyAfterCheck(ui, r) == [checkAdminStatus(ui, r) EXCEPT !.isLoading = FALSE]

SetPanelUi(ui) ==
    /\ panelAdminStatus' = ui.adminStatus
    /\ isLoading' = ui.isLoading
    /\ panelError' = ui.error

\* lines 117-119: the Check button, disabled while isLoading
ClickCheckAdminStatus ==
    /\ panelPc = "idle"
    /\ ~isLoading
    /\ SetPanelUi(startLoading(PanelUi))
    /\ panelPc' = "checkAwait"
    /\ panelPrev' = panelAdminStatus
    /\ panelResp' = NullV
    /\ panelStage' = "none"
    /\ UNCHANGED <<alertText, verifyVars, svcVars, authVars>>

\* rpc('debug_admin_status') settles (lines 30-45)
CheckReturns(r) ==
    /\ panelPc = "checkAwait"
    /\ SetPanelUi(checkAdminStatus(PanelUi, r))
    /\ panelPc' = "idle"
    /\ panelResp' = r
    /\ panelStage' = "check"
    /\ UNCHANGED <<panelPrev, alertText, verifyVars, svcVars, authVars>>

\* lines 126-128: the Verify button, disabled while isLoading
ClickVerifyAdminAccess ==
    /\ panelPc = "idle"
    /\ ~isLoading
    /\ SetPanelUi(startLoading(PanelUi))
    /\ panelPc' = "verifyAwait"
    /\ panelPrev' = panelAdminStatus
    /\ panelResp' = NullV
    /\ panelStage' = "none"
    /\ UNCHANGED <<alertText, verifyVars, svcVars, authVars>>

\* rpc('verify_admin_access') settles (lines 53-69)
VerifyReturns(r) ==
    /\ panelPc = "verifyAwait"
    /\ LET res == verifyAdminAccess(PanelUi, r) IN
         /\ SetPanelUi(res.ui)
         /\ panelPc' = IF res.next = "checkAdminStatus" THEN "nestedAwait" ELSE "idle"
         /\ alertText' = IF res.next = "checkAdminStatus" THEN res.alert ELSE alertText
    /\ panelResp' = r
    /\ panelStage' = "verify"
    /\ UNCHANGED <<panelPrev, verifyVars, svcVars, authVars>>

\* the nested rpc('debug_admin_status') settles; checkAdminStatus and then
\* verifyAdminAccess run to their ends in the same turn (lines 30-45, 63-69)
NestedCheckReturns(r) ==
    /\ panelPc = "nestedAwait"
    /\ SetPanelUi(verifyAfterCheck(PanelUi, r))
    /\ panelPc' = "idle"
    /\ panelResp' = r
    /\ panelStage' = "nested"
    /\ UNCHANGED <<panelPrev, alertText, verifyVars, svcVars, authVars>>

PanelNext ==
    \/ ClickCheckAdminStatus
    \/ \E r \in PanelStatusResponses : CheckReturns(r)
    \/ ClickVerifyAdminAccess
    \/ \E r \in PanelVerifyResponses : VerifyReturns(r)
    \/ \E r \in PanelStatusResponses : NestedCheckReturns(r)

PanelSpec == Init /\ [][PanelNext]_vars

\* --------------------------------------------------------------- C21
\* C21: isLoading is true while a checkAdminStatus or verifyAdminAccess
\* run has a remote call outstanding; when the run has ended isLoading is
\* false, whether its calls succeeded, reported an error or threw, the
\* nested checkAdminStatus included; and a run that failed has set error
\* and left adminStatus as it was when the run started.
PanelCallOutstanding == panelPc \in {"checkAwait", "verifyAwait", "nestedAwait"}
PanelRunEnded == panelPc = "idle" /\ panelStage # "none"
PanelRunFailed ==
    /\ PanelRunEnded
    /\ \/ panelResp.kind = "throw"
       \/ panelResp.error # NullV
       \/ (panelStage = "verify" /\ panelResp.data = NullV)

C21_LoadingBracketsRuns ==
    /\ PanelCallOutstanding => isLoading
    /\ panelPc = "idle" => ~isLoading
    /\ PanelRunFailed =>
          /\ panelError # NullV
          /\ panelAdminStatus = panelPrev

C21_Witness ==
    /\ PanelRunFailed
    /\ panelStage = "nested"
    /\ panelResp.kind = "throw"
    /\ panelPrev # NullV
    /\ panelAdminStatus = panelPrev
    /\ panelError = [tag |-> "text", prefix |-> "", detail |-> "network down"]
    /\ ~isLoading
====
